---- MODULE Spec2Model ----
(***************************************************************************)
(* A model of charred-path's piecewise_linear.rs: PuncturePoint, PLPath,   *)
(* PathType (push / pop / reverse / concatenate / word) and simplify_word. *)
(*                                                                         *)
(* A Vec2 is a pair <<x, y>> of integers.  Every coordinate used here is a *)
(* small integer, which f32 represents exactly, and every product and sum  *)
(* the code forms from them stays far below 2^24, so the f32 arithmetic of *)
(* the source (mul_add included) is exact integer arithmetic on them.  The *)
(* only divisions (is_in_triangle) are compared against bounds, and are    *)
(* modelled by the cross-multiplied comparisons.                           *)
(*                                                                         *)
(* A char is a one-character string; a String is a sequence of chars.      *)
(* An Option is <<>> (None) or <<v>> (Some(v)).                            *)
(***************************************************************************)
EXTENDS Integers, Sequences, FiniteSets, TLC

VARIABLES
    current_path,      \* PathType.current_path.nodes : Vec<Vec2>
    puncture_points,   \* PathType.puncture_points : Vec<PuncturePoint>
    ret,               \* the value returned by the most recent call (NoValue: none)
    last,              \* the most recent call: [op, arg, pruned]
    panicked,          \* an expect() failed: the thread has panicked
    sw_input,          \* simplify_word: the String the caller passed in
    sw_word,           \* simplify_word: the String being edited in place
    sw_i,              \* simplify_word: the scan index i
    sw_pc,             \* simplify_word: "idle" | "loop" | "done"
    sw_prev,           \* simplify_word: the result of the previous run on this String
    wu_puncture,       \* winding_update: the PuncturePoint it is called on (self)
    wu_nodes,          \* winding_update: the nodes whose windows(2) are its segments
    wu_rets            \* winding_update: what it returned for the segments so far

vars == <<current_path, puncture_points, ret, last, panicked,
          sw_input, sw_word, sw_i, sw_pc, sw_prev,
          wu_puncture, wu_nodes, wu_rets>>

pathVars == <<current_path, puncture_points, ret, last, panicked>>
swVars == <<sw_input, sw_word, sw_i, sw_pc, sw_prev>>
wuVars == <<wu_puncture, wu_nodes, wu_rets>>

-----------------------------------------------------------------------------
(* Bounds of the model. *)

\* push and concatenate are applied to paths of at most this many nodes
MaxNodes == 4
\* simplify_word is run on every word of at most this many letters
MaxWordLen == 5
\* winding_update is run on positions with coordinates 0..WindingGridMax
WindingGridMax == 2

NoValue == <<"none">>
None == <<>>
Some(v) == <<v>>

\* the positions the tracked entity reports
NodePoints == {<<0, 0>>, <<2, 0>>, <<0, 4>>, <<4, 4>>}

\* the letters of the words handed to simplify_word
Letters == {"a", "A", "b", "B"}

-----------------------------------------------------------------------------
(* chars *)

to_ascii_uppercase(c) ==
    CASE c = "a" -> "A"
      [] c = "b" -> "B"
      [] OTHER -> c

to_ascii_lowercase(c) ==
    CASE c = "A" -> "a"
      [] c = "B" -> "b"
      [] OTHER -> c

signum(n) == IF n > 0 THEN 1 ELSE IF n < 0 THEN -1 ELSE 0

abs(n) == IF n < 0 THEN -n ELSE n

min(a, b) == IF a <= b THEN a ELSE b

max(a, b) == IF a >= b THEN a ELSE b

-----------------------------------------------------------------------------
(* PuncturePoint *)

\* 1 / f32::EPSILON (f32::EPSILON = 2^-23)
EPSILON_INV == 8388608

PuncturePoint_new(position, name) == [position |-> position, name |-> name]

\* (-EPSILON .. 1 + EPSILON).contains(n / denom), cross-multiplied by |denom| / EPSILON
in_unit_range(n, denom) ==
    LET m == n * signum(denom)
        d == abs(denom)
    IN  /\ m * EPSILON_INV >= -d
        /\ m * EPSILON_INV < d * EPSILON_INV + d

is_in_triangle(pp, p1, p2, p3) ==
    LET p == pp.position
        denom == (p2[2] - p3[2]) * (p1[1] - p3[1]) + (p3[1] - p2[1]) * (p1[2] - p3[2])
        na == (p2[2] - p3[2]) * (p[1] - p3[1]) + (p3[1] - p2[1]) * (p[2] - p3[2])
        nb == (p3[2] - p1[2]) * (p[1] - p3[1]) + (p1[1] - p3[1]) * (p[2] - p3[2])
        nc == denom - na - nb
    IN  IF abs(denom) * EPSILON_INV <= 1
        THEN FALSE
        ELSE /\ in_unit_range(na, denom)
             /\ in_unit_range(nb, denom)
             /\ in_unit_range(nc, denom)

is_any_point_in_triangle(p1, p2, p3, pps) ==
    \E k \in 1..Len(pps) : is_in_triangle(pps[k], p1, p2, p3)

winding_update(pp, start, end) ==
    LET start_to_point == <<pp.position[1] - start[1], pp.position[2] - start[2]>>
        segment_vector == <<end[1] - start[1], end[2] - start[2]>>
        cross_product == start_to_point[1] * segment_vector[2]
                           - start_to_point[2] * segment_vector[1]
        smaller == min(start[1], end[1])
        larger == max(start[1], end[1])
        contains == smaller <= pp.position[1] /\ pp.position[1] <= larger
    IN  IF cross_product # 0
        THEN IF cross_product < 0 /\ contains THEN Some(-1)
             ELSE IF cross_product > 0 /\ contains THEN Some(1)
             ELSE None
        ELSE None

-----------------------------------------------------------------------------
(* simplify_word *)

\* a bug: the scan index is not stepped back after a deletion
no_step_back(i) == i

\* i.saturating_sub(1)
saturating_sub_1(i) == IF i = 0 THEN 0 ELSE i - 1

\* word.drain(i..i+2), i zero-based
drain2(word, i) == SubSeq(word, 1, i) \o SubSeq(word, i + 3, Len(word))

\* a bug: the test forgets "a != b" and takes a doubled letter for an inverse pair
is_same_label(a, b) == to_ascii_uppercase(a) = to_ascii_uppercase(b)

\* the test of the if in the loop body; a, b are bytes i, i+1
is_inverse_pair(a, b) == to_ascii_uppercase(a) = to_ascii_uppercase(b) /\ a # b

\* one iteration of the while loop's body, from (word, i) with i + 1 < word.len()
simplify_body(word, i) ==
    IF is_inverse_pair(word[i + 1], word[i + 2])
    THEN [word |-> drain2(word, i), i |-> saturating_sub_1(i)]
    ELSE [word |-> word, i |-> i + 1]

RECURSIVE simplify_loop(_, _)
simplify_loop(word, i) ==
    IF i + 1 < Len(word)
    THEN LET s == simplify_body(word, i) IN simplify_loop(s.word, s.i)
    ELSE word

simplify_word(word) == simplify_loop(word, 0)

-----------------------------------------------------------------------------
(* PLPath *)

PLPath_reverse(nodes) == [k \in 1..Len(nodes) |-> nodes[Len(nodes) + 1 - k]]

PLPath_concatenate(nodes, other) == nodes \o other

\* Vec::pop: removes the last element, if there is one
Vec_pop(nodes) == IF Len(nodes) = 0 THEN nodes ELSE SubSeq(nodes, 1, Len(nodes) - 1)

-----------------------------------------------------------------------------
(* PathType *)

PathType_pop(nodes) == Vec_pop(nodes)

\* a bug: the redundant node is popped and the new point is never pushed
push_pop_only(nodes, point, pps) ==
    IF Len(nodes) > 2
         /\ ~is_any_point_in_triangle(nodes[Len(nodes) - 1], nodes[Len(nodes)], point, pps)
    THEN PathType_pop(nodes)
    ELSE Append(nodes, point)

\* a bug: the pruning starts at two nodes ("> 1" for "> 2")
RECURSIVE push_from_two_nodes(_, _, _)
push_from_two_nodes(nodes, point, pps) ==
    IF Len(nodes) > 1
    THEN IF ~is_any_point_in_triangle(nodes[Len(nodes) - 1], nodes[Len(nodes)], point, pps)
         THEN push_from_two_nodes(PathType_pop(nodes), point, pps)
         ELSE Append(nodes, point)
    ELSE Append(nodes, point)

RECURSIVE PathType_push(_, _, _)
PathType_push(nodes, point, pps) ==
    IF Len(nodes) > 2
    THEN LET i == Len(nodes) - 2
             p1 == nodes[i + 1]
             p2 == nodes[i + 2]
         IN  IF ~is_any_point_in_triangle(p1, p2, point, pps)
             THEN PathType_push(PathType_pop(nodes), point, pps)
             ELSE Append(nodes, point)
    ELSE Append(nodes, point)

\* the body of "if let Some(n) = puncture.winding_update(&start, &end)"
word_visit(acc, pp, start, end) ==
    LET u == winding_update(pp, start, end) IN
    IF u = None THEN acc
    ELSE LET n == u[1]
             name == pp.name
             entry == acc.point_vals[name] + n
         IN  [point_vals |-> [acc.point_vals EXCEPT ![name] = entry],
              first_encounter_order |->
                  IF entry = 1 \/ entry = -1
                  THEN Append(acc.first_encounter_order, name)
                  ELSE acc.first_encounter_order,
              word |->
                  IF entry % 2 = 0 /\ signum(entry) = signum(n)
                  THEN Append(acc.word, to_ascii_lowercase(name))
                  ELSE acc.word]

\* for puncture in &self.puncture_points, from the k-th on
RECURSIVE word_punctures(_, _, _, _, _)
word_punctures(acc, pps, k, start, end) ==
    IF k > Len(pps) THEN acc
    ELSE word_punctures(word_visit(acc, pps[k], start, end), pps, k + 1, start, end)

\* for segment in full_loop.windows(2), from the j-th window on
RECURSIVE word_segments(_, _, _, _)
word_segments(acc, full_loop, j, pps) ==
    IF j + 1 > Len(full_loop) THEN acc
    ELSE word_segments(word_punctures(acc, pps, 1, full_loop[j], full_loop[j + 1]),
                       full_loop, j + 1, pps)

\* word.chars().filter(|c| c.to_ascii_uppercase() == name || c.to_ascii_lowercase() == name)
filter_name(word, name) ==
    SelectSeq(word, LAMBDA c : to_ascii_uppercase(c) = name \/ to_ascii_lowercase(c) = name)

\* the "Reorder the word based on the first encounter order" loop, from the k-th name on
RECURSIVE reorder(_, _, _)
reorder(word, first_encounter_order, k) ==
    IF k > Len(first_encounter_order) THEN <<>>
    ELSE filter_name(word, first_encounter_order[k])
           \o reorder(word, first_encounter_order, k + 1)

\* the state of word() after its traversal loop: word, point_vals, first_encounter_order
word_traversal(nodes, pps) ==
    LET full_loop == Append(nodes, nodes[1])
        names == {pps[k].name : k \in 1..Len(pps)}
        acc0 == [point_vals |-> [n \in names |-> 0],
                 first_encounter_order |-> <<>>,
                 word |-> <<>>]
    IN  word_segments(acc0, full_loop, 1, pps)

\* the String passed to simplify_word
ordered_word(nodes, pps) ==
    LET t == word_traversal(nodes, pps)
    IN  reorder(t.word, t.first_encounter_order, 1)

\* PathType::word on a path with at least one node (start() panics on none)
PathType_word(nodes, pps) == simplify_word(ordered_word(nodes, pps))

-----------------------------------------------------------------------------
(* The paths and puncture sets of the tests. *)

nodes_1 == << <<0, 0>>, <<3, 6>>, <<7, 6>>, <<4, 4>>, <<3, 6>>, <<7, 6>>, <<10, 0>> >>

nodes_2 == << <<0, 0>>, <<7, 6>>, <<3, 6>>, <<4, 4>>, <<7, 6>>, <<3, 6>>, <<10, 0>> >>

puncture_points_1 == << PuncturePoint_new(<<5, 5>>, "A") >>

nodes_two_punctures ==
    << <<0, 0>>, <<2, 4>>, <<6, 4>>, <<6, 2>>, <<4, 2>>, <<4, 0>>,
       <<6, 0>>, <<6, 2>>, <<8, 2>>, <<8, 0>>, <<10, 0>> >>

puncture_points_two ==
    << PuncturePoint_new(<<4, 3>>, "A"), PuncturePoint_new(<<7, 1>>, "B") >>

\* nodes_1 with its first edge over the puncture walked there, back and there again
nodes_1_retraced ==
    << <<0, 0>>, <<3, 6>>, <<7, 6>>, <<3, 6>>, <<7, 6>>, <<4, 4>>, <<3, 6>>, <<7, 6>>,
       <<10, 0>> >>

Fixtures ==
    { [nodes |-> nodes_1, puncture_points |-> puncture_points_1],
      [nodes |-> nodes_2, puncture_points |-> puncture_points_1],
      [nodes |-> nodes_1_retraced, puncture_points |-> puncture_points_1],
      [nodes |-> nodes_two_punctures, puncture_points |-> puncture_points_two] }

\* the puncture sets a scene is built with; labels are handed to PuncturePoint::new
\* in either case
PunctureSets ==
    { <<>>,
      << PuncturePoint_new(<<1, 1>>, "A") >>,
      << PuncturePoint_new(<<1, 1>>, "A"), PuncturePoint_new(<<3, 3>>, "b") >> }

\* the paths a caller hands to concatenate
OtherPaths == {<<>>} \cup {<<p>> : p \in NodePoints}

-----------------------------------------------------------------------------
(* The PathType state machine. *)

\* a call, its argument (push: the point) and the number of nodes it pruned
Call(op, arg, pruned) == [op |-> op, arg |-> arg, pruned |-> pruned]

swIdle ==
    /\ sw_input = <<>>
    /\ sw_word = <<>>
    /\ sw_i = 0
    /\ sw_pc = "idle"
    /\ sw_prev = NoValue

wuIdle ==
    /\ wu_puncture = NoValue
    /\ wu_nodes = <<>>
    /\ wu_rets = <<>>

\* PathType::new: current_path = vec![start]
New ==
    \E start \in NodePoints, pps \in PunctureSets :
        /\ current_path = <<start>>
        /\ puncture_points = pps
        /\ last = Call("new", NoValue, 0)

\* PathType::from_path: current_path = path
FromPath ==
    \E f \in Fixtures :
        /\ current_path = f.nodes
        /\ puncture_points = f.puncture_points
        /\ last = Call("from_path", NoValue, 0)

Init ==
    /\ New \/ FromPath
    /\ ret = NoValue
    /\ panicked = FALSE
    /\ swIdle
    /\ wuIdle

Push(point) ==
    /\ ~panicked
    /\ Len(current_path) <= MaxNodes
    /\ current_path' = PathType_push(current_path, point, puncture_points)
    /\ last' = Call("push", point, Len(current_path) + 1 - Len(current_path'))
    /\ ret' = NoValue
    /\ UNCHANGED <<puncture_points, panicked>>
    /\ UNCHANGED swVars
    /\ UNCHANGED wuVars

Pop ==
    /\ ~panicked
    /\ current_path' = PathType_pop(current_path)
    /\ last' = Call("pop", NoValue, 0)
    /\ ret' = NoValue
    /\ UNCHANGED <<puncture_points, panicked>>
    /\ UNCHANGED swVars
    /\ UNCHANGED wuVars

Reverse ==
    /\ ~panicked
    /\ current_path' = PLPath_reverse(current_path)
    /\ last' = Call("reverse", NoValue, 0)
    /\ ret' = NoValue
    /\ UNCHANGED <<puncture_points, panicked>>
    /\ UNCHANGED swVars
    /\ UNCHANGED wuVars

Concatenate(other) ==
    /\ ~panicked
    /\ Len(current_path) + Len(other) <= MaxNodes
    /\ current_path' = PLPath_concatenate(current_path, other)
    /\ last' = Call("concatenate", NoValue, 0)
    /\ ret' = NoValue
    /\ UNCHANGED <<puncture_points, panicked>>
    /\ UNCHANGED swVars
    /\ UNCHANGED wuVars

\* a bug: word() closes the loop on current_path itself, not on a clone of it
WordClosesPathInPlace ==
    /\ ~panicked
    /\ last' = Call("word", NoValue, 0)
    /\ IF Len(current_path) = 0
       THEN /\ panicked' = TRUE
            /\ ret' = NoValue
            /\ UNCHANGED current_path
       ELSE /\ panicked' = FALSE
            /\ ret' = PathType_word(current_path, puncture_points)
            /\ current_path' = Append(current_path, current_path[1])
    /\ UNCHANGED puncture_points
    /\ UNCHANGED swVars
    /\ UNCHANGED wuVars

\* word(): self.current_path.start() panics on a path without nodes
Word ==
    /\ ~panicked
    /\ last' = Call("word", NoValue, 0)
    /\ IF Len(current_path) = 0
       THEN /\ panicked' = TRUE
            /\ ret' = NoValue
       ELSE /\ panicked' = FALSE
            /\ ret' = PathType_word(current_path, puncture_points)
    /\ UNCHANGED <<current_path, puncture_points>>
    /\ UNCHANGED swVars
    /\ UNCHANGED wuVars

Next ==
    \/ \E point \in NodePoints : Push(point)
    \/ Pop
    \/ Reverse
    \/ \E other \in OtherPaths : Concatenate(other)
    \/ Word

Spec == Init /\ [][Next]_vars

-----------------------------------------------------------------------------
(* simplify_word, one loop iteration per step. *)

Words == UNION {[1..n -> Letters] : n \in 0..MaxWordLen}

pathIdle ==
    /\ current_path = << <<0, 0>> >>
    /\ puncture_points = <<>>
    /\ ret = NoValue
    /\ last = Call("new", NoValue, 0)
    /\ panicked = FALSE

\* simplify_word(&mut word) is entered: let mut i = 0
InitSimplify ==
    /\ pathIdle
    /\ sw_input \in Words
    /\ sw_word = sw_input
    /\ sw_i = 0
    /\ sw_pc = "loop"
    /\ sw_prev = NoValue
    /\ wuIdle

\* while i + 1 < word.len() { ... }
SimplifyIterate ==
    /\ sw_pc = "loop"
    /\ sw_i + 1 < Len(sw_word)
    /\ LET s == simplify_body(sw_word, sw_i)
       IN  /\ sw_word' = s.word
           /\ sw_i' = s.i
    /\ UNCHANGED <<sw_input, sw_pc, sw_prev>>
    /\ UNCHANGED pathVars
    /\ UNCHANGED wuVars

\* the loop condition fails: simplify_word returns
SimplifyReturn ==
    /\ sw_pc = "loop"
    /\ ~(sw_i + 1 < Len(sw_word))
    /\ sw_pc' = "done"
    /\ UNCHANGED <<sw_input, sw_word, sw_i, sw_prev>>
    /\ UNCHANGED pathVars
    /\ UNCHANGED wuVars

\* the caller hands the same String to simplify_word once more
SimplifyAgain ==
    /\ sw_pc = "done"
    /\ sw_prev = NoValue
    /\ sw_prev' = sw_word
    /\ sw_i' = 0
    /\ sw_pc' = "loop"
    /\ UNCHANGED <<sw_input, sw_word>>
    /\ UNCHANGED pathVars
    /\ UNCHANGED wuVars

NextSimplify ==
    \/ SimplifyIterate
    \/ SimplifyReturn
    \/ SimplifyAgain

\* the code is sequential: a call that was entered keeps running its loop
SpecSimplify ==
    /\ InitSimplify
    /\ [][NextSimplify]_vars
    /\ WF_vars(SimplifyIterate \/ SimplifyReturn)

-----------------------------------------------------------------------------
(* winding_update, called on the two segments that meet at a node, as word()'s *)
(* traversal calls it on the windows of the loop.                              *)

WindingPoints == (0..WindingGridMax) \X (0..WindingGridMax)

InitWinding ==
    /\ pathIdle
    /\ swIdle
    /\ \E position \in WindingPoints : wu_puncture = PuncturePoint_new(position, "A")
    /\ wu_nodes \in WindingPoints \X WindingPoints \X WindingPoints
    /\ wu_rets = <<>>

\* puncture.winding_update(&start, &end) on the next window of the nodes
WindingUpdate ==
    /\ Len(wu_rets) + 1 < Len(wu_nodes)
    /\ LET j == Len(wu_rets) + 1
       IN  wu_rets' = Append(wu_rets, winding_update(wu_puncture, wu_nodes[j], wu_nodes[j + 1]))
    /\ UNCHANGED <<wu_puncture, wu_nodes>>
    /\ UNCHANGED pathVars
    /\ UNCHANGED swVars

NextWinding == WindingUpdate

SpecWinding == InitWinding /\ [][NextWinding]_vars

-----------------------------------------------------------------------------
(* Properties of the PathType state machine. *)

start_of(nodes) == nodes[1]

end_of(nodes) == nodes[Len(nodes)]

\* C1: after any sequence of push, pop, reverse and concatenate on a path built with
\* at least one node, current_path holds at least one node, and start() never hits
\* its "empty path" failure.
C1_PathNeverEmpty == Len(current_path) >= 1 /\ ~panicked

\* C2: a push(q) on a path with at least one node leaves the first node of
\* current_path as it was and makes q its last node, however many trailing nodes
\* the push pruned.
C2_PushKeepsStartSetsEnd ==
    [][(last'.op = "push" /\ Len(current_path) >= 1) =>
          /\ start_of(current_path') = start_of(current_path)
          /\ end_of(current_path') = last'.arg]_vars

\* C2's case: a push that pruned two trailing nodes before appending its point.
C2_Witness ==
    /\ last.op = "push"
    /\ last.pruned >= 2
    /\ Len(puncture_points) >= 1

\* C3: the word after push(q) equals the word of the same path with q appended and
\* no node removed.
C3_PruningKeepsWord ==
    [][\A point \in NodePoints :
          (Push(point) /\ Len(current_path) >= 1) =>
              PathType_word(current_path', puncture_points)
                = PathType_word(Append(current_path, point), puncture_points)]_vars

\* C4: a clockwise contribution is written as the uppercase label: word() of the
\* clockwise double loop nodes_2 around A at (5,5) is "AA".
C4_ClockwiseIsUppercase ==
    (/\ last.op = "word"
     /\ current_path = nodes_2
     /\ puncture_points = puncture_points_1)
        => ret = <<"A", "A">>

\* Whether the edge start -> end passes strictly over the position p, crossing the
\* vertical line through p.
crosses_above(p, start, end) ==
    /\ min(start[1], end[1]) < p[1]
    /\ p[1] < max(start[1], end[1])
    /\ (start[2] - p[2]) * abs(end[1] - start[1])
         + (end[2] - start[2]) * abs(p[1] - start[1]) > 0

\* The number of turns of the closed loop around p, counted on the ray going up
\* from p: one for each edge crossing it in the direction of increasing x, minus
\* one for each edge crossing it in the direction of decreasing x (the sense in
\* which nodes_1 makes two turns around (5,5)).
RECURSIVE turns_from(_, _, _)
turns_from(full_loop, p, j) ==
    IF j + 1 > Len(full_loop) THEN 0
    ELSE (IF crosses_above(p, full_loop[j], full_loop[j + 1])
          THEN signum(full_loop[j + 1][1] - full_loop[j][1])
          ELSE 0)
           + turns_from(full_loop, p, j + 1)

turns(nodes, p) == turns_from(Append(nodes, nodes[1]), p, 1)

\* no node lies on the vertical line through p
off_vertical(nodes, p) == \A k \in 1..Len(nodes) : nodes[k][1] # p[1]

\* C5: word() of a closed loop that makes exactly two turns around the single
\* puncture A is "aa".
C5_TwoTurnsIsAA ==
    (/\ last.op = "word"
     /\ ~panicked
     /\ Len(puncture_points) = 1
     /\ puncture_points[1].name = "A"
     /\ off_vertical(current_path, puncture_points[1].position)
     /\ turns(current_path, puncture_points[1].position) = 2)
        => ret = <<"a", "a">>

\* C6: the letters of word() are in edge-traversal order: word() of the
\* two-puncture path of test_word_two_punctures is "ABA".
C6_TraversalOrder ==
    (/\ last.op = "word"
     /\ current_path = nodes_two_punctures
     /\ puncture_points = puncture_points_two)
        => ret = <<"A", "B", "A">>

\* C9: the label a PuncturePoint stores is uppercase in every reachable state.
C9_LabelStoredUppercase ==
    \A k \in 1..Len(puncture_points) :
        puncture_points[k].name = to_ascii_uppercase(puncture_points[k].name)

removable(nodes, j, point, pps) ==
    ~is_any_point_in_triangle(nodes[j - 1], nodes[j], point, pps)

\* The step is a push that appends unconditionally to a path of at most keep nodes
\* and otherwise prunes: it pops the last node while more than keep nodes remain
\* and no puncture blocks the removal of the last one, then appends its point.
pushes_keeping(keep) ==
    \E k \in 0..Len(current_path) :
        /\ current_path' = Append(SubSeq(current_path, 1, k), last'.arg)
        /\ \A j \in (k + 1)..Len(current_path) :
               j > keep /\ removable(current_path, j, last'.arg, puncture_points)
        /\ k <= keep \/ ~removable(current_path, k, last'.arg, puncture_points)

\* C11 (as claimed): push(q) appends unconditionally only to a path of fewer than 2
\* nodes; with 2 or more nodes and no puncture in the triangle of the last two nodes
\* and q, the last node is popped and the push retried on the shorter path;
\* otherwise q is appended and nothing removed.
C11_PushPrunesFromTwoNodes ==
    [][(last'.op = "push") => pushes_keeping(1)]_vars

\* C11 (amended): push(q) appends unconditionally to a path of 2 or fewer nodes;
\* with more than 2 nodes and no puncture in the triangle of the last two nodes and
\* q, the last node is popped and the push retried on the shorter path; otherwise q
\* is appended and nothing removed.
C11_PushPrunesFromThreeNodes ==
    [][(last'.op = "push") => pushes_keeping(2)]_vars

\* C11's case: a push onto exactly 2 nodes kept the second node although no
\* puncture lies in the triangle of the two nodes and the point.
C11_Witness ==
    /\ last.op = "push"
    /\ last.pruned = 0
    /\ Len(current_path) = 3
    /\ Len(puncture_points) >= 1
    /\ removable(current_path, 2, current_path[3], puncture_points)

\* the number of letters of the word w that are the label name in either case
letters_of(w, name) ==
    Cardinality({k \in 1..Len(w) : to_ascii_uppercase(w[k]) = to_ascii_uppercase(name)})

\* no two punctures carry the same label
distinct_labels(pps) ==
    \A i, j \in 1..Len(pps) :
        i # j => to_ascii_uppercase(pps[i].name) # to_ascii_uppercase(pps[j].name)

\* C13: with distinct labels, the string word() passes to simplify_word holds, for
\* each puncture label, exactly as many letters as the edge traversal emitted for
\* it: the reordering neither duplicates nor drops a letter.
C13_ReorderingOnlyPermutes ==
    (last.op = "word" /\ ~panicked /\ distinct_labels(puncture_points)) =>
        \A k \in 1..Len(puncture_points) :
            letters_of(ordered_word(current_path, puncture_points), puncture_points[k].name)
              = letters_of(word_traversal(current_path, puncture_points).word,
                           puncture_points[k].name)

-----------------------------------------------------------------------------
(* Properties of winding_update. *)

\* the x-coordinate of p lies strictly between those of start and end
straddles_strictly(p, start, end) ==
    /\ min(start[1], end[1]) < p[1]
    /\ p[1] < max(start[1], end[1])

\* C12: winding_update returns a contribution only for a segment that strictly
\* straddles the puncture's x-coordinate, so the two segments meeting at a node
\* whose x is the puncture's x do not both return a contribution.
C12_ContributionOnlyWhenStraddling ==
    /\ \A j \in 1..Len(wu_rets) :
           wu_rets[j] # None =>
               straddles_strictly(wu_puncture.position, wu_nodes[j], wu_nodes[j + 1])
    /\ (Len(wu_rets) = 2 /\ wu_nodes[2][1] = wu_puncture.position[1]) =>
           ~(wu_rets[1] # None /\ wu_rets[2] # None)

-----------------------------------------------------------------------------
(* Properties of simplify_word. *)

\* the same label in the other case
inverse_letter(c) ==
    CASE c = "a" -> "A"
      [] c = "A" -> "a"
      [] c = "b" -> "B"
      [] c = "B" -> "b"

\* the positions k at which the letters k, k+1 are inverse to each other
inverse_pairs(w) == {k \in 1..(Len(w) - 1) : w[k + 1] = inverse_letter(w[k])}

\* the words without inverse pair that deleting inverse pairs from w can end in
RECURSIVE free_reductions(_)
free_reductions(w) ==
    IF inverse_pairs(w) = {} THEN {w}
    ELSE UNION {free_reductions(SubSeq(w, 1, k - 1) \o SubSeq(w, k + 2, Len(w))) :
                   k \in inverse_pairs(w)}

C8_SimplifyIdempotent ==
    (sw_pc = "done" /\ sw_prev # NoValue) => sw_word = sw_prev

\* C8's case: a second run has returned, on a word the first run had shortened to a
\* non-empty one.
C8_Witness ==
    /\ sw_pc = "done"
    /\ sw_prev # NoValue
    /\ Len(sw_prev) > 0
    /\ Len(sw_prev) < Len(sw_input)

====
